---- MODULE Spec2Model ----
(***************************************************************************)
(* Model of the rolling-window absence calculator (src/src/main.rs).       *)
(*                                                                         *)
(* A calendar date (chrono::NaiveDate) is modelled by its day number, the  *)
(* count of days since 1970-01-01, so that `date +/- Duration::days(n)`    *)
(* is integer addition and `(a - b).num_days()` is integer subtraction.    *)
(* A period is the pair <<start, end>>.                                    *)
(***************************************************************************)
EXTENDS Integers, Sequences, FiniteSets, TLC

VARIABLES
    pc,               \* position of the program
    source,           \* "direct" | "file" | "interactive": how the list is acquired
    file,             \* what the file argument yields (see Files)
    entered,          \* the lines read from stdin so far, in order
    absence_start,    \* get_absences_from_interactive: the pending start date
    absence_periods,  \* the list of periods (acquired, or passed directly)
    merged_periods,   \* the merged list built by the last aggregator call
    results,          \* the Vec<CalculationResult> of the last aggregator call
    calls             \* the arguments of every aggregator call so far

vars == <<pc, source, file, entered, absence_start, absence_periods,
          merged_periods, results, calls>>

----------------------------------------------------------------------------
(* Bounds of the model *)

MaxLen == 3        \* longest list passed directly to the aggregator
MaxDay == 2        \* the near dates are Base .. Base + MaxDay
MaxRecords == 2    \* most records in the JSON file
MaxLines == 5      \* most lines typed at the interactive prompts

(* Program constants *)

WindowDays == 365

----------------------------------------------------------------------------
(* Calendar dates *)

IsLeap(y) == (y % 4 = 0 /\ y % 100 # 0) \/ y % 400 = 0

DaysInMonth(y, m) ==
    IF m = 2 THEN (IF IsLeap(y) THEN 29 ELSE 28)
    ELSE IF m \in {4, 6, 9, 11} THEN 30 ELSE 31

\* NaiveDate::from_ymd_opt(y, m, d).unwrap(): the day number of a civil date
D(y, m, d) ==
    LET yy  == IF m <= 2 THEN y - 1 ELSE y
        era == yy \div 400
        yoe == yy - era * 400
        mp  == IF m > 2 THEN m - 3 ELSE m + 9
        doy == (153 * mp + 2) \div 5 + d - 1
        doe == yoe * 365 + yoe \div 4 - yoe \div 100 + doy
    IN  era * 146097 + doe - 719468

max(a, b) == IF a >= b THEN a ELSE b
min(a, b) == IF a <= b THEN a ELSE b

----------------------------------------------------------------------------
(* calculate_rolling_absences *)

\* insert p behind every element whose start is <= p's start (stable)
RECURSIVE InsertByStart(_, _)
InsertByStart(s, p) ==
    IF s = <<>> THEN <<p>>
    ELSE IF s[Len(s)][1] <= p[1] THEN Append(s, p)
    ELSE Append(InsertByStart(SubSeq(s, 1, Len(s) - 1), p), s[Len(s)])

\* sorted_periods.sort_by_key(|(start, _)| *start): a stable sort by start
RECURSIVE SortFrom(_, _, _)
SortFrom(acc, s, i) ==
    IF i > Len(s) THEN acc ELSE SortFrom(InsertByStart(acc, s[i]), s, i + 1)

sort_by_key(s) == SortFrom(<<>>, s, 1)

\* mutant: merges overlapping periods only, not adjacent ones
merge_if_overlap_only(last, p) == p[1] <= last[2]

\* the merge condition of one iteration of the merge loop
merge_if(last, p) == p[1] <= last[2] + 1

\* mutant: the end of the last merged period is overwritten, not extended
merge_step_overwrite(merged, p) ==
    LET n == Len(merged)
        last == merged[n]
    IN  IF merge_if(last, p)
        THEN [merged EXCEPT ![n] = <<last[1], p[2]>>]
        ELSE Append(merged, p)

\* the body of the merge loop for one sorted period p
merge_step(merged, p) ==
    LET n == Len(merged)
        last == merged[n]
    IN  IF merge_if(last, p)
        THEN [merged EXCEPT ![n] = <<last[1], max(last[2], p[2])>>]
        ELSE Append(merged, p)

RECURSIVE MergeFrom(_, _, _)
MergeFrom(merged, sorted, i) ==
    IF i > Len(sorted) THEN merged
    ELSE MergeFrom(merge_step(merged, sorted[i]), sorted, i + 1)

\* the merged list built from a non-empty list of periods
merge_periods(periods) ==
    LET sorted_periods == sort_by_key(periods)
    IN  MergeFrom(<<sorted_periods[1]>>, sorted_periods, 2)

\* mutant: the window starts a day late
calculation_start_364(calculation_end) == calculation_end - (WindowDays - 1)

calculation_start(calculation_end) == calculation_end - WindowDays

\* mutant: the two bounds of the overlap are not both counted
overlap_days_exclusive(period, cstart, cend) ==
    LET overlap_start == max(period[1], cstart)
        overlap_end == min(period[2], cend)
    IN  IF overlap_start <= overlap_end
        THEN overlap_end - overlap_start
        ELSE 0

\* the filter_map closure: the days one merged period has in the window
overlap_days(period, cstart, cend) ==
    LET overlap_start == max(period[1], cstart)
        overlap_end == min(period[2], cend)
    IN  IF overlap_start <= overlap_end
        THEN (overlap_end - overlap_start) + 1
        ELSE 0

RECURSIVE SumOverlap(_, _, _, _)
SumOverlap(merged, cstart, cend, i) ==
    IF i > Len(merged) THEN 0
    ELSE overlap_days(merged[i], cstart, cend) + SumOverlap(merged, cstart, cend, i + 1)

\* mutant: the merged periods are not clipped to the start of the window
total_absence_days_unclipped(merged, cstart, cend) ==
    SumOverlap(merged, merged[1][1], cend, 1)

total_absence_days(merged, cstart, cend) == SumOverlap(merged, cstart, cend, 1)

\* the CalculationResult pushed for one period of the input
result_for(period, merged) ==
    [absence_start |-> period[1],
     absence_end |-> period[2],
     window_start |-> calculation_start(period[2]),
     window_end |-> period[2],
     total_days_in_window |->
         total_absence_days(merged, calculation_start(period[2]), period[2])]

\* mutant: the result loop iterates over the sorted copy
result_source_sorted(periods) == sort_by_key(periods)

\* the periods the result loop iterates over
result_source(periods) == periods

merged_of(periods) == IF periods = <<>> THEN <<>> ELSE merge_periods(periods)

calculate_rolling_absences(periods) ==
    IF periods = <<>> THEN <<>>
    ELSE LET merged == merge_periods(periods)
             src == result_source(periods)
         IN  [i \in 1..Len(src) |-> result_for(src[i], merged)]

----------------------------------------------------------------------------
(* Text read from stdin or found in a JSON field *)

Blank == [kind |-> "blank", y |-> 0, m |-> 0, d |-> 0]       \* empty once trimmed
Garbage == [kind |-> "other", y |-> 0, m |-> 0, d |-> 0]     \* e.g. "2023/01/01"
Ymd(y, m, d) == [kind |-> "ymd", y |-> y, m |-> m, d |-> d]  \* digits "YYYY-MM-DD"

\* NaiveDate::parse_from_str(text, "%Y-%m-%d") and NaiveDate's Deserialize
parse_from_str(text) ==
    IF /\ text.kind = "ymd"
       /\ text.m \in 1..12
       /\ text.d \in 1..DaysInMonth(text.y, text.m)
    THEN [ok |-> TRUE, date |-> D(text.y, text.m, text.d)]
    ELSE [ok |-> FALSE, date |-> 0]

\* one pass of the loop of get_date_from_user over the line just read
get_date_from_user(line) ==
    IF line.kind = "blank" THEN [tag |-> "None", date |-> 0]
    ELSE IF parse_from_str(line).ok
         THEN [tag |-> "Some", date |-> parse_from_str(line).date]
         ELSE [tag |-> "Retry", date |-> 0]

\* mutant: any date is accepted as the end date
end_accepted_any(date, start) == TRUE

\* the test of the end-date loop of get_absences_from_interactive
end_accepted(date, start) == date >= start

----------------------------------------------------------------------------
(* The JSON file *)

\* serde_json::from_str::<Vec<AbsencePeriod>>(data)
from_str(data) ==
    IF /\ data.wellformed
       /\ \A i \in 1..Len(data.records) :
              /\ parse_from_str(data.records[i].start_date).ok
              /\ parse_from_str(data.records[i].end_date).ok
    THEN [ok |-> TRUE,
          periods |-> [i \in 1..Len(data.records) |->
                          [start_date |-> parse_from_str(data.records[i].start_date).date,
                           end_date |-> parse_from_str(data.records[i].end_date).date]]]
    ELSE [ok |-> FALSE, periods |-> <<>>]

\* mutant: one-day periods are skipped too
skip_period_one_day(period) == period.end_date <= period.start_date

\* the test that makes the validation loop skip a period
skip_period(period) == period.end_date < period.start_date

RECURSIVE ValidateFrom(_, _, _)
ValidateFrom(acc, parsed, i) ==
    IF i > Len(parsed) THEN acc
    ELSE IF skip_period(parsed[i])
         THEN ValidateFrom(acc, parsed, i + 1)
         ELSE ValidateFrom(Append(acc, <<parsed[i].start_date, parsed[i].end_date>>),
                           parsed, i + 1)

parse_and_validate_absences(data) ==
    IF ~from_str(data).ok THEN [ok |-> FALSE, periods |-> <<>>]
    ELSE [ok |-> TRUE, periods |-> ValidateFrom(<<>>, from_str(data).periods, 1)]

get_absences_from_file(f) ==
    IF ~f.readable THEN [ok |-> FALSE, periods |-> <<>>]
    ELSE parse_and_validate_absences(f)

----------------------------------------------------------------------------
(* Inputs *)

Base == D(2023, 1, 1)

\* a cluster of consecutive days, and a day 366 days after the first of them
CalcDates == {Base + k : k \in 0..MaxDay} \cup {Base + WindowDays + 1}

CalcPeriods == CalcDates \X CalcDates

\* test_absence_outside_365_day_window
OutsideWindowInput ==
    << <<D(2021, 5, 1), D(2021, 5, 10)>>, <<D(2023, 8, 1), D(2023, 8, 20)>> >>

DirectInputs ==
    UNION {[1..n -> CalcPeriods] : n \in 0..MaxLen} \cup {OutsideWindowInput}

Texts == {Ymd(2023, 1, 1), Ymd(2023, 1, 2), Ymd(2023, 2, 30)}

Lines == Texts \cup {Blank, Garbage}

Records == [start_date : Texts, end_date : Texts]

NoFile == [readable |-> FALSE, wellformed |-> FALSE, records |-> <<>>]

Files ==
    {NoFile, [readable |-> TRUE, wellformed |-> FALSE, records |-> <<>>]}
    \cup {[readable |-> TRUE, wellformed |-> TRUE, records |-> r] :
             r \in UNION {[1..n -> Records] : n \in 0..MaxRecords}}

----------------------------------------------------------------------------
(* The aggregator called directly on a list *)

InitCalc ==
    /\ pc = "call"
    /\ source = "direct"
    /\ file = NoFile
    /\ entered = <<>>
    /\ absence_start = <<>>
    /\ absence_periods \in DirectInputs
    /\ merged_periods = <<>>
    /\ results = <<>>
    /\ calls = <<>>

Calculate ==
    /\ pc = "call"
    /\ pc' = "returned"
    /\ results' = calculate_rolling_absences(absence_periods)
    /\ merged_periods' = merged_of(absence_periods)
    /\ calls' = Append(calls, absence_periods)
    /\ UNCHANGED <<source, file, entered, absence_start, absence_periods>>

NextCalc == Calculate

SpecCalc == InitCalc /\ [][NextCalc]_vars

----------------------------------------------------------------------------
(* main *)

Init ==
    /\ pc = "main"
    /\ \/ source = "file" /\ file \in Files
       \/ source = "interactive" /\ file = NoFile
    /\ entered = <<>>
    /\ absence_start = <<>>
    /\ absence_periods = <<>>
    /\ merged_periods = <<>>
    /\ results = <<>>
    /\ calls = <<>>

\* mutant: the emptiness test is missing
nothing_to_process_never(periods) == FALSE

\* the test of main that stops the program before the aggregator
nothing_to_process(periods) == periods = <<>>

\* main from the emptiness test on, calculate_and_print_results included
FinishMain(periods) ==
    IF nothing_to_process(periods)
    THEN /\ pc' = "exit_empty"
         /\ UNCHANGED <<merged_periods, results, calls>>
    ELSE /\ pc' = "exit"
         /\ results' = calculate_rolling_absences(periods)
         /\ merged_periods' = merged_of(periods)
         /\ calls' = Append(calls, periods)

\* main with a file argument, from start to end
MainFile ==
    /\ pc = "main"
    /\ source = "file"
    /\ IF get_absences_from_file(file).ok
       THEN /\ absence_periods' = get_absences_from_file(file).periods
            /\ FinishMain(get_absences_from_file(file).periods)
       ELSE /\ pc' = "exit_error"
            /\ UNCHANGED <<absence_periods, merged_periods, results, calls>>
    /\ UNCHANGED <<source, file, entered, absence_start>>

\* main without argument, up to the first prompt
MainInteractive ==
    /\ pc = "main"
    /\ source = "interactive"
    /\ pc' = "prompt_start"
    /\ UNCHANGED <<source, file, entered, absence_start, absence_periods,
                   merged_periods, results, calls>>

\* a line is read at the start-date prompt
ReadStartLine ==
    /\ pc = "prompt_start"
    /\ Len(entered) < MaxLines
    /\ \E line \in Lines :
        /\ entered' = Append(entered, line)
        /\ CASE get_date_from_user(line).tag = "None" ->
                  /\ FinishMain(absence_periods)
                  /\ UNCHANGED <<absence_start, absence_periods>>
             [] get_date_from_user(line).tag = "Some" ->
                  /\ absence_start' = <<get_date_from_user(line).date>>
                  /\ pc' = "prompt_end"
                  /\ UNCHANGED <<absence_periods, merged_periods, results, calls>>
             [] OTHER ->
                  UNCHANGED <<pc, absence_start, absence_periods,
                              merged_periods, results, calls>>
    /\ UNCHANGED <<source, file>>

\* a line is read at the end-date prompt
ReadEndLine ==
    /\ pc = "prompt_end"
    /\ Len(entered) < MaxLines
    /\ \E line \in Lines :
        /\ entered' = Append(entered, line)
        /\ IF /\ get_date_from_user(line).tag = "Some"
              /\ end_accepted(get_date_from_user(line).date, absence_start[1])
           THEN /\ absence_periods' =
                      Append(absence_periods,
                             <<absence_start[1], get_date_from_user(line).date>>)
                /\ absence_start' = <<>>
                /\ pc' = "prompt_start"
           ELSE UNCHANGED <<pc, absence_start, absence_periods>>
    /\ UNCHANGED <<source, file, merged_periods, results, calls>>

Next == MainFile \/ MainInteractive \/ ReadStartLine \/ ReadEndLine

Spec == Init /\ [][Next]_vars

----------------------------------------------------------------------------
(* What the claims are stated with *)

WellFormed(p) == p[2] >= p[1]

AllWellFormed(periods) == \A i \in DOMAIN periods : WellFormed(periods[i])

\* the set of days that lie in at least one of the periods
DaysOf(periods) == UNION {periods[i][1]..periods[i][2] : i \in DOMAIN periods}

\* the number of distinct days of lo..hi that lie in at least one period
DistinctDays(periods, lo, hi) == Cardinality((lo..hi) \cap DaysOf(periods))

WellFormedOnly(periods) == SelectSeq(periods, WellFormed)

Returned == pc = "returned"

\* C1: for a list of well-formed periods, the total reported for every period
\* p is the number of distinct days of [p.end - 365, p.end] that lie in at
\* least one input period, each day counted once.
C1_TotalIsDistinctDays ==
    (Returned /\ AllWellFormed(absence_periods)) =>
        \A i \in DOMAIN absence_periods :
            /\ i \in DOMAIN results
            /\ results[i].total_days_in_window =
                  DistinctDays(absence_periods,
                               absence_periods[i][2] - 365, absence_periods[i][2])

\* two overlapping periods and a third one whose window cuts the first
C1_Witness ==
    /\ Returned
    /\ absence_periods = << <<Base, Base + 1>>, <<Base + 1, Base + 2>>,
                            <<Base + 2, Base + 366>> >>
    /\ results[2].total_days_in_window = 3
    /\ results[3].total_days_in_window = 366

\* C2: the result list has the length of the input list and result i echoes
\* the start and end of input i, whatever the order of the input.
C2_OrderPreserved ==
    Returned =>
        /\ Len(results) = Len(absence_periods)
        /\ \A i \in DOMAIN absence_periods :
              /\ results[i].absence_start = absence_periods[i][1]
              /\ results[i].absence_end = absence_periods[i][2]

\* an input that the sort reorders
C2_Witness ==
    /\ Returned
    /\ Len(absence_periods) = 3
    /\ absence_periods[1][1] > absence_periods[2][1]
    /\ absence_periods[3][1] < absence_periods[2][1]
    /\ Len(results) = 3

\* C3: the merged list built from a non-empty list of well-formed periods is
\* sorted by start, holds only periods with end >= start, has a gap of at
\* least two days between consecutive periods, and covers exactly the days
\* the input periods cover.
C3_MergedCanonical ==
    (Returned /\ absence_periods # <<>> /\ AllWellFormed(absence_periods)) =>
        /\ merged_periods # <<>>
        /\ AllWellFormed(merged_periods)
        /\ \A i \in 1..(Len(merged_periods) - 1) :
              /\ merged_periods[i][1] <= merged_periods[i + 1][1]
              /\ merged_periods[i + 1][1] >= merged_periods[i][2] + 2
        /\ DaysOf(merged_periods) = DaysOf(absence_periods)

\* two adjacent periods given out of order are merged, a third one,
\* two days after them, is not
C3_Witness ==
    /\ Returned
    /\ absence_periods = << <<Base + 1, Base + 1>>, <<Base, Base>>,
                            <<Base + 366, Base + 366>> >>
    /\ merged_periods = << <<Base, Base + 1>>, <<Base + 366, Base + 366>> >>

\* C4: every result has window_end = its absence_end (the end of its input
\* period) and window_start = absence_end - 365 days, whatever else is in
\* the input.
C4_WindowAnchored ==
    Returned =>
        \A i \in DOMAIN results :
            /\ results[i].window_end = results[i].absence_end
            /\ results[i].window_start = results[i].absence_end - 365
            /\ i \in DOMAIN absence_periods
            /\ results[i].window_end = absence_periods[i][2]

\* two results with different windows in one call
C4_Witness ==
    /\ Returned
    /\ Len(results) = 2
    /\ results[1].window_end = Base + 366 /\ results[1].window_start = Base + 1
    /\ results[2].window_end = Base + 2 /\ results[2].window_start = Base - 363

TestReturned == Returned /\ absence_periods = OutsideWindowInput

\* C5 as stated: for A = (2021-05-01, 2021-05-10) and B = (2023-08-01,
\* 2023-08-20), B's window is [2022-08-01, 2023-08-20] with 20 days and A's
\* window is [2020-05-01, 2021-05-10] with 10 days.
C5_AsStated ==
    TestReturned =>
        /\ Len(results) = 2
        /\ results[2].window_start = D(2022, 8, 1)
        /\ results[2].window_end = D(2023, 8, 20)
        /\ results[2].total_days_in_window = 20
        /\ results[1].window_start = D(2020, 5, 1)
        /\ results[1].window_end = D(2021, 5, 10)
        /\ results[1].total_days_in_window = 10

\* C5 amended: for the same input, B's window is [2022-08-20, 2023-08-20]
\* with 20 days and A's window is [2020-05-10, 2021-05-10] with 10 days.
C5_OutsideWindow ==
    TestReturned =>
        /\ Len(results) = 2
        /\ results[2].window_start = D(2022, 8, 20)
        /\ results[2].window_end = D(2023, 8, 20)
        /\ results[2].total_days_in_window = 20
        /\ results[1].window_start = D(2020, 5, 10)
        /\ results[1].window_end = D(2021, 5, 10)
        /\ results[1].total_days_in_window = 10

C5_Witness ==
    /\ TestReturned
    /\ Len(results) = 2
    /\ results[2].absence_start = D(2023, 8, 1)
    /\ results[1].absence_end = D(2021, 5, 10)

\* C6: the closed interval [window_start, window_end] of every result holds
\* exactly 365 calendar days, and no total_days_in_window exceeds 365.
C6_WindowHas365Days ==
    Returned =>
        \A i \in DOMAIN results :
            /\ Cardinality(results[i].window_start..results[i].window_end) = 365
            /\ results[i].total_days_in_window <= 365

\* C10: for any list, malformed periods (end < start) included, there is one
\* result per input period, echoing it unswapped; every total is >= 0 and is
\* the number of distinct days of the result's window that lie in at least
\* one well-formed period of the input.
C10_MalformedCountNothing ==
    Returned =>
        /\ Len(results) = Len(absence_periods)
        /\ \A i \in DOMAIN absence_periods :
              /\ results[i].absence_start = absence_periods[i][1]
              /\ results[i].absence_end = absence_periods[i][2]
              /\ results[i].total_days_in_window >= 0
              /\ results[i].total_days_in_window =
                    DistinctDays(WellFormedOnly(absence_periods),
                                 results[i].window_start, results[i].window_end)

\* a malformed period between two well-formed ones it would bridge if swapped
C10_Witness ==
    /\ Returned
    /\ absence_periods = << <<Base, Base>>, <<Base + 2, Base>>,
                            <<Base + 2, Base + 2>> >>
    /\ results[2].total_days_in_window = 1
    /\ results[3].total_days_in_window = 2

----------------------------------------------------------------------------
(* Claims about main and the two input sources *)

DateOf(text) == parse_from_str(text).date

IsDate(text) == parse_from_str(text).ok

Exits == {"exit_error", "exit_empty", "exit"}

\* the file can be read and every record of it parses
FileParses ==
    /\ file.readable
    /\ file.wellformed
    /\ \A i \in DOMAIN file.records :
          IsDate(file.records[i].start_date) /\ IsDate(file.records[i].end_date)

EndNotBeforeStart(record) == DateOf(record.end_date) >= DateOf(record.start_date)

\* the records with end_date >= start_date, in their order, as pairs of dates
KeptPairs(records) ==
    LET kept == SelectSeq(records, EndNotBeforeStart)
    IN  [i \in 1..Len(kept) |-> <<DateOf(kept[i].start_date), DateOf(kept[i].end_date)>>]

\* C7: when the records of the file parse, parse_and_validate_absences is Ok
\* with exactly the pairs of the records with end_date >= start_date, in
\* their order: a record with end_date < start_date is dropped and changes
\* nothing else, a record with end_date = start_date is kept.
C7_FilterKeepsValidInOrder ==
    (source = "file" /\ pc # "main" /\ FileParses) =>
        /\ pc # "exit_error"
        /\ absence_periods = KeptPairs(file.records)

\* a dropped record ahead of a kept one-day record
C7_Witness ==
    /\ source = "file"
    /\ pc = "exit"
    /\ file.records = <<[start_date |-> Ymd(2023, 1, 2), end_date |-> Ymd(2023, 1, 1)],
                        [start_date |-> Ymd(2023, 1, 2), end_date |-> Ymd(2023, 1, 2)]>>
    /\ absence_periods = << <<D(2023, 1, 2), D(2023, 1, 2)>> >>

\* C8: in every run of main the aggregator is called at most once and only
\* with a non-empty list of periods with end >= start; when the file cannot
\* be read or parsed, or the acquired list is empty, the program ends
\* without a call.
C8_AggregatorGuarded ==
    /\ Len(calls) <= 1
    /\ \A k \in DOMAIN calls : calls[k] # <<>> /\ AllWellFormed(calls[k])
    /\ (pc \in Exits /\ source = "file" /\ ~FileParses) => calls = <<>>
    /\ (pc \in Exits /\ absence_periods = <<>>) => calls = <<>>
    /\ (pc \notin Exits) => calls = <<>>

\* a file whose only record is dropped: the program has ended without a call
C8_Witness ==
    /\ pc = "exit_empty"
    /\ source = "file"
    /\ file.records = <<[start_date |-> Ymd(2023, 1, 2), end_date |-> Ymd(2023, 1, 1)]>>
    /\ calls = <<>>

\* C9: a step of the interactive entry. At the start prompt, entry ends
\* exactly on a blank line, a date becomes the pending start, and nothing is
\* recorded. At the end prompt, entry never ends; a blank line, an
\* unparseable line or a date before the pending start keeps the prompt, the
\* pending start and the list; a date on or after the pending start is
\* recorded with it, behind the periods recorded before.
C9_Step ==
    LET line == entered'[Len(entered')]
        good == IsDate(line) /\ DateOf(line) >= absence_start[1]
    IN  /\ (pc \notin Exits /\ pc' \in Exits /\ source = "interactive") =>
              /\ pc = "prompt_start"
              /\ entered' = Append(entered, Blank)
        /\ (entered' # entered /\ pc = "prompt_start") =>
              /\ (pc' \in Exits) <=> (line = Blank)
              /\ absence_periods' = absence_periods
              /\ IsDate(line) => (pc' = "prompt_end" /\ absence_start' = <<DateOf(line)>>)
              /\ (line # Blank /\ ~IsDate(line)) => pc' = "prompt_start"
        /\ (entered' # entered /\ pc = "prompt_end") =>
              /\ pc' \notin Exits
              /\ ~good => /\ pc' = "prompt_end"
                          /\ absence_start' = absence_start
                          /\ absence_periods' = absence_periods
              /\ good => /\ pc' = "prompt_start"
                         /\ absence_periods' =
                               Append(absence_periods, <<absence_start[1], DateOf(line)>>)

C9_InteractiveEntry == [][C9_Step]_vars

\* a blank line and an earlier date were refused at the end prompt before the
\* period was recorded, and entry was then ended
C9_Witness ==
    /\ pc = "exit"
    /\ entered = <<Ymd(2023, 1, 2), Blank, Ymd(2023, 1, 1), Ymd(2023, 1, 2), Blank>>
    /\ absence_periods = << <<D(2023, 1, 2), D(2023, 1, 2)>> >>

====
